---- MODULE Spec2Model ----
(***************************************************************************)
(* Model of st_theresa_medical_center.js: the AjaxHandler retry wrapper,   *)
(* the UIHelper DOM helpers and the GlobalEvents click/submit handlers.    *)
(*                                                                         *)
(* JavaScript runs each event-loop task to completion, so every action is  *)
(* one task together with the promise reactions it queues: the handler of  *)
(* a DOM event, the completion of a transport call with the then / catch / *)
(* finally reactions that follow it, or the firing of a retry timer.       *)
(* The chain returned by $.ajax(...) is taken to follow the Promise        *)
(* then / catch / finally semantics that request() documents (@returns     *)
(* {Promise<Object>}).                                                     *)
(***************************************************************************)
EXTENDS Integers, Sequences, FiniteSets, TLC

VARIABLES
    ready,       \* the $(document).ready callback has run (window.App exists)
    containers,  \* number of #toast-container elements in the document
    attached,    \* toast elements appended to the container
    lost,        \* toast elements built but appended to no container
    loading,     \* the target region carries the 'loading' class
    content,     \* innerHTML of the target region
    disabled,    \* the form's submit button is disabled
    req,         \* per call of AjaxHandler.request: its closure and history
    cookie,      \* document.cookie: the name=value pairs, in order
    csrfToken,   \* this.csrfToken of the page's AjaxHandler (window.App.ajax)
    formArray    \* $(form).serializeArray(): the form's {name, value} pairs, in order

vars == <<ready, containers, attached, lost, loading, content, disabled, req,
          cookie, csrfToken, formArray>>

(***************************************************************************)
(* Bounds of the model.                                                    *)
(***************************************************************************)
MaxReq == 2        \* request closures alive at the same time
MaxRetryOpt == 2   \* largest retries value passed as an option
MaxToasts == 2     \* toast elements created over a run
MaxFields == 2     \* successful controls of a form

(***************************************************************************)
(* Program constants.                                                      *)
(***************************************************************************)
DefaultRetries == 3     \* options.defaultRetries ?? 3
DefaultDelay == 500     \* options.defaultDelay ?? 500

NoOpt == -1             \* an option that was not passed (undefined)

ReqIds == 1..MaxReq

(***************************************************************************)
(* Cookies.  document.cookie lists the pairs as "name=value; name=value";  *)
(* the values here contain no '%', ';' or '=', so decodeURIComponent and   *)
(* the split at ';' leave every pair as it is.                             *)
(***************************************************************************)
Pair(n, v) == [name |-> n, value |-> v]

Jars ==
    { <<>>,
      <<Pair("sessionid", "s1")>>,
      <<Pair("csrftoken", "abc")>>,
      <<Pair("sessionid", "s1"), Pair("csrftoken", "xyz")>> }

(***************************************************************************)
(* Forms.  serializeArray() lists the successful controls in document      *)
(* order; a control without a name is left out, and names may repeat.      *)
(***************************************************************************)
FieldNames == {"q", "tag", "__proto__"}
FieldValues == {"a", "b"}

SeqsUpTo(S, n) == UNION { [1..k -> S] : k \in 0..n }

Forms == SeqsUpTo({Pair(n, v) : n \in FieldNames, v \in FieldValues}, MaxFields)

\* The form of the page under test.
PageForm == <<Pair("q", "a"), Pair("tag", "b")>>

\* {}: the object without own keys
EmptyObject == [k \in {} |-> ""]

\* The cookies of the page under test.
PageJar == <<Pair("sessionid", "s1"), Pair("csrftoken", "xyz")>>

NoInstance == "unset"   \* csrfToken before the AjaxHandler is constructed

(***************************************************************************)
(* Server responses.  A transport failure, or a parsed JSON body: a        *)
(* string, null, or an object whose fields may be absent.                  *)
(***************************************************************************)
SuccessVals == {"absent", "true", "false", "str"}   \* "str": a non-empty string
MessageVals == {"absent", "", "Invalid"}
DataVals == {"absent", "<p>ok</p>"}
HtmlVals == {"absent", "<p>new</p>"}

NoBody == [success |-> "absent", message |-> "absent", data |-> "absent", html |-> "absent"]

NetErr == [ok |-> FALSE, body |-> "none", env |-> NoBody]
TextBody == [ok |-> TRUE, body |-> "string", env |-> NoBody]
NullBody == [ok |-> TRUE, body |-> "null", env |-> NoBody]
Objects ==
    { [ok |-> TRUE, body |-> "object", env |-> e] :
        e \in [success : SuccessVals, message : MessageVals,
               data : DataVals, html : HtmlVals] }

Responses == {NetErr, TextBody, NullBody} \cup Objects

\* What the transport delivered, as the specification classifies it.
Kind(resp) ==
    IF ~resp.ok THEN "neterr"
    ELSE IF resp.body # "object" THEN "malformed"
    ELSE IF resp.env.success = "absent" THEN "malformed"
    ELSE IF resp.env.success \in {"true", "false"} THEN resp.env.success
    ELSE "nonbool"

(***************************************************************************)
(* JavaScript primitives used by the code.                                 *)
(***************************************************************************)
\* a ?? b
Coalesce(a, b) == IF a = NoOpt THEN b ELSE a

\* typeof v, for a parsed JSON body
TypeOf(resp) == IF resp.body = "string" THEN "string" ELSE "object"

\* ToBoolean of a field value
Truthy(v) == v \notin {"absent", "", "false"}

\* a || b
OrElse(a, b) == IF Truthy(a) THEN a ELSE b

(***************************************************************************)
(* AjaxHandler.                                                            *)
(***************************************************************************)
\* constructor: options.defaultRetries ?? 3; request: options.retries ?? this.defaultRetries
\* getCsrfToken(): the value of the first pair named csrftoken, or ''
RECURSIVE GetCsrfToken(_)
GetCsrfToken(jar) ==
    IF jar = <<>> THEN ""
    ELSE IF Head(jar).name = "csrftoken" THEN Head(jar).value
    ELSE GetCsrfToken(Tail(jar))

EffRetries(opt, dflt) == Coalesce(opt, Coalesce(dflt, DefaultRetries))

\* constructor: options.defaultDelay ?? 500; request: options.delay ?? this.defaultDelay
EffDelay(opt) == Coalesce(opt, DefaultDelay)

\* Variant of ValidateResponse that checks the type alone and never looks for
\* the success field.
ValidateTypeOnly(resp) ==
    IF TypeOf(resp) # "object" THEN "invalid_json" ELSE "ok"

\* The check at the head of the .then handler.  typeof null is 'object', so a
\* null body reaches response.success and the handler throws a TypeError.
ValidateResponse(resp) ==
    IF TypeOf(resp) # "object" THEN "invalid_json"
    ELSE IF resp.body = "null" THEN "TypeError"
    ELSE IF resp.env.success = "absent" THEN "invalid_json"
    ELSE "ok"

\* Variant of ShouldRetry that is off by one: attempt <= retries.
ShouldRetryInclusive(attempt, retries) == attempt <= retries

\* The test of the .catch handler: retry, or give up.
ShouldRetry(attempt, retries) == attempt < retries

(***************************************************************************)
(* UIHelper.  The helpers act on u: the document's fields, together with   *)
(* the calling request's event log (log) and the toasts it showed (shown). *)
(***************************************************************************)
Log(u, ev) == [u EXCEPT !.log = Append(@, ev)]

ShowLoading(u) == Log([u EXCEPT !.loading = TRUE], "show")

HideLoading(u) == Log([u EXCEPT !.loading = FALSE], "hide")

DisableButton(u) == Log([u EXCEPT !.disabled = TRUE], "disable")

EnableButton(u) == Log([u EXCEPT !.disabled = FALSE], "enable")

\* data[item.name] = item.value on a plain object: an own key is set or
\* overwritten, except that '__proto__' names the prototype accessor, whose
\* setter ignores a string and adds no key.
Put(d, n, v) ==
    IF n = "__proto__" THEN d
    ELSE [k \in DOMAIN d \cup {n} |-> IF k = n THEN v ELSE d[k]]

\* formArray.forEach(item => { data[item.name] = item.value; }) from data = d
RECURSIVE SerializeFrom(_, _)
SerializeFrom(fs, d) ==
    IF fs = <<>> THEN d
    ELSE SerializeFrom(Tail(fs), Put(d, Head(fs).name, Head(fs).value))

\* serializeForm(form)
SerializeForm(fs) == SerializeFrom(fs, EmptyObject)

\* colors[type] || colors.info
ToastClass(type) ==
    CASE type = "info" -> "bg-info"
      [] type = "success" -> "bg-success"
      [] type = "warning" -> "bg-warning"
      [] type = "error" -> "bg-danger"
      [] OTHER -> "bg-info"

\* Variant of Toast that creates the container when the document has none.
ToastLazy(u, message, type) ==
    LET t == [text |-> message, cls |-> ToastClass(type), inContainer |-> TRUE]
    IN  [u EXCEPT !.containers = IF @ = 0 THEN 1 ELSE @,
                  !.attached = @ + 1, !.shown = Append(@, t)]

\* $('#toast-container').append(toast): appends to the container when the
\* selector matches one, and to nothing when it matches none.
Toast(u, message, type) ==
    LET t == [text |-> message, cls |-> ToastClass(type), inContainer |-> u.containers > 0]
    IN  IF u.containers > 0
        THEN [u EXCEPT !.attached = @ + 1, !.shown = Append(@, t)]
        ELSE [u EXCEPT !.lost = @ + 1, !.shown = Append(@, t)]

(***************************************************************************)
(* GlobalEvents: the callbacks the click and submit handlers pass.  A      *)
(* direct caller of request ("api") passes callbacks of its own, which     *)
(* leave the document alone.                                               *)
(***************************************************************************)
\* Variant of GetSuccess that leaves the target region alone when data is absent.
GetSuccessKeepOnEmpty(u, res) ==
    IF Truthy(res.success)
    THEN LET u1 == IF Truthy(res.data) THEN [u EXCEPT !.content = res.data] ELSE u
         IN  IF Truthy(res.message) THEN Toast(u1, res.message, "success") ELSE u1
    ELSE Toast(u, OrElse(res.message, "Failed to load content"), "error")

GetSuccess(u, res) ==
    IF Truthy(res.success)
    THEN LET u1 == [u EXCEPT !.content = OrElse(res.data, "")]
         IN  IF Truthy(res.message) THEN Toast(u1, res.message, "success") ELSE u1
    ELSE Toast(u, OrElse(res.message, "Failed to load content"), "error")

GetError(u) == Toast(u, "Failed to load content", "error")

GetFinally(u) == HideLoading(u)

\* Variant of PostSuccess that replaces the target region before looking at success.
PostSuccessAlwaysHtml(u, res) ==
    LET u1 == IF Truthy(res.html) THEN [u EXCEPT !.content = res.html] ELSE u
    IN  IF Truthy(res.success)
        THEN IF Truthy(res.message) THEN Toast(u1, res.message, "success") ELSE u1
        ELSE Toast(u1, OrElse(res.message, "Submission failed"), "error")

PostSuccess(u, res) ==
    IF Truthy(res.success)
    THEN LET u1 == IF Truthy(res.html) THEN [u EXCEPT !.content = res.html] ELSE u
         IN  IF Truthy(res.message) THEN Toast(u1, res.message, "success") ELSE u1
    ELSE Toast(u, OrElse(res.message, "Submission failed"), "error")

PostError(u) == Toast(u, "Submission failed", "error")

\* Variant of PostFinally that forgets the submit button.
PostFinallyHideOnly(u) == HideLoading(u)

PostFinally(u) == EnableButton(HideLoading(u))

\* if (options.success) options.success(response)
SuccessCb(caller, u, res) ==
    LET u1 == Log(u, "success")
    IN  CASE caller = "click" -> GetSuccess(u1, res)
          [] caller = "submit" -> PostSuccess(u1, res)
          [] OTHER -> u1

\* if (options.error) options.error(xhr, status, error)
ErrorCb(caller, u) ==
    LET u1 == Log(u, "error")
    IN  CASE caller = "click" -> GetError(u1)
          [] caller = "submit" -> PostError(u1)
          [] OTHER -> u1

\* if (options.finally) options.finally()
FinallyCb(caller, u) ==
    LET u1 == Log(u, "finally")
    IN  CASE caller = "click" -> GetFinally(u1)
          [] caller = "submit" -> PostFinally(u1)
          [] OTHER -> u1

(***************************************************************************)
(* The request closure.                                                    *)
(*   caller   who called request: the click handler, the submit handler,  *)
(*            or another script ("api")                                    *)
(*   opt      options.retries of the call, dflt the instance's             *)
(*            options.defaultRetries; retries and delay as request reads   *)
(*            them                                                         *)
(*   throws   the success callback passed by the caller throws             *)
(*   attempt  the counter makeRequest increments                           *)
(*   pc       idle, inflight ($.ajax pending), delay (setTimeout pending), *)
(*            settled                                                      *)
(*   result, value, error   the state of the returned promise              *)
(*   before   the target region's content when the call was made           *)
(*   trace    the calls made on behalf of the request, in order            *)
(*   shown    the toasts its callbacks created                             *)
(*   token    this.csrfToken of the AjaxHandler the call was made on       *)
(*   headers  the X-CSRFToken header of each transport call, in order      *)
(*   data     the data object passed to request                            *)
(***************************************************************************)
IdleReq ==
    [caller |-> "none", pc |-> "idle", opt |-> NoOpt, dflt |-> NoOpt,
     retries |-> 0, delay |-> 0, throws |-> FALSE, attempt |-> 0,
     result |-> "pending", value |-> NoBody, error |-> "none",
     before |-> "", trace |-> <<>>, shown |-> <<>>,
     token |-> NoInstance, headers |-> <<>>, data |-> EmptyObject]

\* The document as the helpers see it, on behalf of a request with log lg and toasts sh.
View(lg, sh) ==
    [containers |-> containers, attached |-> attached, lost |-> lost,
     loading |-> loading, content |-> content, disabled |-> disabled,
     log |-> lg, shown |-> sh]

\* Write the helpers' result back to the document.
Commit(u) ==
    /\ containers' = u.containers
    /\ attached' = u.attached
    /\ lost' = u.lost
    /\ loading' = u.loading
    /\ content' = u.content
    /\ disabled' = u.disabled

Unsettled(i) == req[i].pc \in {"inflight", "delay"}

\* No request is under way: the user acts again only once the page has settled.
Quiet == \A j \in ReqIds : ~Unsettled(j)

\* The closure a new call takes: the first one that is not under way.
FreeSlot(i) == ~Unsettled(i) /\ \A j \in ReqIds : j < i => Unsettled(j)

\* Toast elements that requests under way may still create.
PendingToasts == Cardinality({j \in ReqIds : Unsettled(j) /\ req[j].caller # "api"})

ToastRoom == attached + lost + PendingToasts < MaxToasts

\* Variant of MakeRequest that reads the cookie again for every transport call.
MakeRequestFreshToken(r, u) ==
    [r EXCEPT !.attempt = @ + 1, !.pc = "inflight", !.trace = Append(u.log, "send"),
              !.shown = u.shown, !.headers = Append(@, GetCsrfToken(cookie))]

\* makeRequest: attempt++ and $.ajax(...) with headers {'X-CSRFToken': this.csrfToken}
MakeRequest(r, u) ==
    [r EXCEPT !.attempt = @ + 1, !.pc = "inflight", !.trace = Append(u.log, "send"),
              !.shown = u.shown, !.headers = Append(@, r.token)]

\* request(method, url, data, options), up to the first $.ajax
Request(caller, opt, dflt, dly, throws, tok, data, u) ==
    MakeRequest([IdleReq EXCEPT !.caller = caller, !.opt = opt, !.dflt = dflt,
                                !.before = content, !.token = tok, !.data = data,
                                !.retries = EffRetries(opt, dflt),
                                !.delay = EffDelay(dly), !.throws = throws], u)

\* The .then handler: validate the body, then hand it to the success callback.
\* A transport failure skips it.  fail names what rejects the promise, if anything.
ThenHandler(r, u, resp) ==
    LET v == IF resp.ok THEN ValidateResponse(resp) ELSE "transport"
    IN  IF v # "ok"
        THEN [fail |-> v, value |-> NoBody, u |-> u]
        ELSE [fail |-> IF r.throws THEN "callback" ELSE "none", value |-> resp.env,
              u |-> SuccessCb(r.caller, u, resp.env)]

\* Variant of CatchHandler that calls the error callback on every failed attempt.
CatchReportEach(r, u, fail) ==
    IF ShouldRetry(r.attempt, r.retries)
    THEN [pc |-> "delay", result |-> "pending", value |-> NoBody, error |-> "none",
          u |-> Log(ErrorCb(r.caller, u), "wait")]
    ELSE [pc |-> "settled", result |-> "rejected", value |-> NoBody, error |-> fail,
          u |-> ErrorCb(r.caller, u)]

\* The .catch handler: wait and call makeRequest again, or report and reject.
CatchHandler(r, u, fail) ==
    IF ShouldRetry(r.attempt, r.retries)
    THEN [pc |-> "delay", result |-> "pending", value |-> NoBody, error |-> "none",
          u |-> Log(u, "wait")]
    ELSE [pc |-> "settled", result |-> "rejected", value |-> NoBody, error |-> fail,
          u |-> ErrorCb(r.caller, u)]

\* Variant of FinallyHandler with .finally chained inside makeRequest: it runs
\* after every attempt.
FinallyEachAttempt(caller, c) == [c EXCEPT !.u = FinallyCb(caller, c.u)]

\* makeRequest().finally(...): runs once the outermost promise has settled.
FinallyHandler(caller, c) ==
    IF c.pc = "settled" THEN [c EXCEPT !.u = FinallyCb(caller, c.u)] ELSE c

\* The reactions to a transport call that completed with resp.
AfterResponse(r, u0, resp) ==
    LET t == ThenHandler(r, Log(u0, Kind(resp)), resp)
        c == IF t.fail = "none"
             THEN [pc |-> "settled", result |-> "resolved", value |-> t.value,
                   error |-> "none", u |-> t.u]
             ELSE CatchHandler(r, t.u, t.fail)
    IN  FinallyHandler(r.caller, c)

(***************************************************************************)
(* Actions.                                                                *)
(***************************************************************************)
Start(jars, forms) ==
    /\ ready = FALSE
    /\ containers \in {0, 1}
    /\ attached = 0
    /\ lost = 0
    /\ loading = FALSE
    /\ content = "old"
    /\ disabled = FALSE
    /\ req = [i \in ReqIds |-> IdleReq]
    /\ cookie \in jars
    /\ csrfToken = NoInstance
    /\ formArray \in forms

Init == Start({PageJar}, {PageForm})

\* Any cookies when the page loads.
InitCsrf == Start(Jars, {PageForm})

\* Any form in the page.
InitForm == Start({PageJar}, Forms)

\* Variant of DocumentReady that does not add the toast container.
DocumentReadyNoContainer ==
    /\ ~ready
    /\ ready' = TRUE
    /\ csrfToken' = GetCsrfToken(cookie)
    /\ UNCHANGED <<containers, attached, lost, loading, content, disabled, req, cookie, formArray>>

\* $(document).ready: window.App = new GlobalEvents(), whose AjaxHandler reads
\* the token, then the container
DocumentReady ==
    /\ ~ready
    /\ ready' = TRUE
    /\ csrfToken' = GetCsrfToken(cookie)
    /\ containers' = IF containers = 0 THEN 1 ELSE containers
    /\ UNCHANGED <<attached, lost, loading, content, disabled, req, cookie, formArray>>

\* click on [data-ajax-get]
Click(i) ==
    /\ ready
    /\ FreeSlot(i)
    /\ ToastRoom
    /\ LET u == ShowLoading(View(<<>>, <<>>))
       IN  /\ req' = [req EXCEPT ![i] = Request("click", NoOpt, NoOpt, NoOpt, FALSE, csrfToken,
                                                 EmptyObject, u)]
           /\ Commit(u)
    /\ UNCHANGED <<ready, cookie, csrfToken, formArray>>

\* submit of form[data-ajax-post]
Submit(i) ==
    /\ ready
    /\ FreeSlot(i)
    /\ ToastRoom
    /\ LET u == DisableButton(ShowLoading(View(<<>>, <<>>)))
       IN  /\ req' = [req EXCEPT ![i] = Request("submit", NoOpt, NoOpt, NoOpt, FALSE, csrfToken,
                                                 SerializeForm(formArray), u)]
           /\ Commit(u)
    /\ UNCHANGED <<ready, cookie, csrfToken, formArray>>

\* new AjaxHandler({defaultRetries: dflt}).request(..., {retries: opt, delay: dly, ...})
ApiRequest(i, opt, dflt, dly, throws) ==
    /\ FreeSlot(i)
    /\ req' = [req EXCEPT ![i] = Request("api", opt, dflt, dly, throws,
                                          GetCsrfToken(cookie), EmptyObject,
                                          View(<<>>, <<>>))]
    /\ UNCHANGED <<ready, containers, attached, lost, loading, content, disabled,
                   cookie, csrfToken, formArray>>

\* a transport call completes
Respond(i, resp) ==
    /\ req[i].pc = "inflight"
    /\ LET o == AfterResponse(req[i], View(req[i].trace, req[i].shown), resp)
       IN  /\ req' = [req EXCEPT ![i] = [@ EXCEPT !.pc = o.pc, !.result = o.result,
                                                  !.value = o.value, !.error = o.error,
                                                  !.trace = o.u.log, !.shown = o.u.shown]]
           /\ Commit(o.u)
    /\ UNCHANGED <<ready, cookie, csrfToken, formArray>>

\* Variant of TimerFire in which the retry timer never calls makeRequest.
TimerFireLost(i) ==
    /\ req[i].pc = "delay"
    /\ UNCHANGED vars

\* setTimeout(res, delay) fires: .then(makeRequest)
TimerFire(i) ==
    /\ req[i].pc = "delay"
    /\ req' = [req EXCEPT ![i] = MakeRequest(@, View(@.trace, @.shown))]
    /\ UNCHANGED <<ready, containers, attached, lost, loading, content, disabled,
                   cookie, csrfToken, formArray>>

\* UIHelper.toast called by another script of the page
ToastCall(type) ==
    /\ ToastRoom
    /\ Commit(Toast(View(<<>>, <<>>), "note", type))
    /\ UNCHANGED <<ready, req, cookie, csrfToken, formArray>>

\* the browser or a script replaces the cookies (a response's Set-Cookie, a login)
CookieChange(jar) ==
    /\ cookie # jar
    /\ cookie' = jar
    /\ UNCHANGED <<ready, containers, attached, lost, loading, content, disabled,
                   req, csrfToken, formArray>>

OptVals == {NoOpt} \cup 0..MaxRetryOpt
DelayVals == {NoOpt, 0}
ToastTypes == {"info", "error", "bogus"}

\* What a server sends to a direct caller of request: the envelopes without payload.
ApiResponses == {r \in Responses : r.env.data = "absent" /\ r.env.html = "absent"
                                   /\ r.env.message # ""}

\* The page: the handlers GlobalEvents binds, driven one user action at a time.
Next ==
    \/ DocumentReady
    \/ \E i \in ReqIds : Quiet /\ Click(i)
    \/ \E i \in ReqIds : Quiet /\ Submit(i)
    \/ \E i \in ReqIds, resp \in Responses : Respond(i, resp)
    \/ \E i \in ReqIds : TimerFire(i)
    \/ \E type \in ToastTypes : ToastCall(type)

Spec == Init /\ [][Next]_vars

\* AjaxHandler on its own: calls of request with every combination of options.
NextApi ==
    \/ \E i \in ReqIds, opt \in OptVals, dflt \in OptVals, dly \in DelayVals, th \in BOOLEAN :
          Quiet /\ ApiRequest(i, opt, dflt, dly, th)
    \/ \E i \in ReqIds, resp \in ApiResponses : Respond(i, resp)
    \/ \E i \in ReqIds : TimerFire(i)

SpecApi == Init /\ [][NextApi]_vars

\* The same, where every transport call completes and every timer fires.
SpecApiFair ==
    /\ SpecApi
    /\ \A i \in ReqIds : WF_vars(\E resp \in ApiResponses : Respond(i, resp))
    /\ \A i \in ReqIds : WF_vars(TimerFire(i))

\* What the server answers while the cookies are watched.
CsrfResponses ==
    {NetErr,
     [ok |-> TRUE, body |-> "object",
      env |-> [success |-> "true", message |-> "absent", data |-> "<p>ok</p>",
               html |-> "absent"]]}

\* The page while the cookies change under it.
NextCsrf ==
    \/ DocumentReady
    \/ \E i \in ReqIds : Quiet /\ Click(i)
    \/ \E i \in ReqIds : Quiet /\ Submit(i)
    \/ \E i \in ReqIds, resp \in CsrfResponses : Respond(i, resp)
    \/ \E i \in ReqIds : TimerFire(i)
    \/ \E jar \in Jars : CookieChange(jar)

SpecCsrf == InitCsrf /\ [][NextCsrf]_vars

\* What the link of request i loads: each trigger has its own URL.
PageOf(i) == "<p>" \o ToString(i) \o "</p>"

\* What the server answers to request i while requests overlap.
OverlapResponses(i) ==
    {NetErr,
     [ok |-> TRUE, body |-> "object",
      env |-> [success |-> "true", message |-> "absent", data |-> PageOf(i),
               html |-> "absent"]]}

\* The page when the user does not wait: a trigger is activated while earlier
\* requests are under way.  Each closure is used once, so a higher closure
\* belongs to a later activation; a form is submitted through its enabled button.
NextOverlap ==
    \/ DocumentReady
    \/ \E i \in ReqIds : req[i].pc = "idle" /\ Click(i)
    \/ \E i \in ReqIds : req[i].pc = "idle" /\ ~disabled /\ Submit(i)
    \/ \E i \in ReqIds : \E resp \in OverlapResponses(i) : Respond(i, resp)
    \/ \E i \in ReqIds : TimerFire(i)

SpecOverlap == Init /\ [][NextOverlap]_vars

\* Submissions of any form; the server accepts each.
FormResponses ==
    {[ok |-> TRUE, body |-> "object",
      env |-> [success |-> "true", message |-> "absent", data |-> "absent",
               html |-> h]] : h \in HtmlVals}

NextForm ==
    \/ DocumentReady
    \/ \E i \in ReqIds : Quiet /\ Submit(i)
    \/ \E i \in ReqIds, resp \in FormResponses : Respond(i, resp)

SpecForm == InitForm /\ [][NextForm]_vars

(***************************************************************************)
(* Reading a request's event log.                                          *)
(***************************************************************************)
Max(a, b) == IF a >= b THEN a ELSE b

Count(t, ev) == Cardinality({p \in 1..Len(t) : t[p] = ev})

\* Position of the first ev in t, and Len(t) + 1 when there is none.
FirstPos(t, evs) ==
    IF \E p \in 1..Len(t) : t[p] \in evs
    THEN CHOOSE p \in 1..Len(t) : t[p] \in evs /\ \A q \in 1..(p - 1) : t[q] \notin evs
    ELSE Len(t) + 1

KindEvents == {"neterr", "malformed", "nonbool", "true", "false"}

\* What each transport call of the request delivered, in order.
Kinds(r) == SelectSeq(r.trace, LAMBDA e : e \in KindEvents)

\* Transport calls issued by the request.
Sends(r) == Count(r.trace, "send")

\* Transport calls issued up to position p of the log.
SendsUpTo(r, p) == Count(SubSeq(r.trace, 1, p), "send")

Started == {i \in ReqIds : req[i].caller # "none"}

\* The retry bound as the specification words it: the per-call option if
\* given, otherwise the instance default, otherwise 3.
ConfiguredRetries(r) ==
    IF r.opt # NoOpt THEN r.opt ELSE IF r.dflt # NoOpt THEN r.dflt ELSE 3

AllTransportFailures(r) == \A p \in 1..Len(Kinds(r)) : Kinds(r)[p] = "neterr"

(***************************************************************************)
(* C1.  Original statement: a request whose every attempt fails at         *)
(* transport level invokes the transport exactly N times before the        *)
(* promise rejects, N >= 0 being the configured retry bound.               *)
(***************************************************************************)
C1_ExactlyNCalls ==
    \A i \in Started :
        LET r == req[i]
        IN  (r.result = "rejected" /\ AllTransportFailures(r))
                => Sends(r) = ConfiguredRetries(r)

\* C1, amended: a request whose every attempt fails at transport level invokes
\* the transport exactly max(1, N) times before the promise rejects: the first
\* call is always made, so N = 0 behaves as N = 1.  Until then the promise is
\* pending and fewer calls were made, never more.
C1_ExactlyMaxOneNCalls ==
    \A i \in Started :
        LET r == req[i]
            n == Max(1, ConfiguredRetries(r))
        IN  AllTransportFailures(r) =>
                /\ Sends(r) <= n
                /\ r.result # "resolved"
                /\ r.result = "rejected" <=> (Sends(r) = n /\ r.pc = "settled")

C1_Witness ==
    \E i \in Started :
        /\ req[i].result = "rejected"
        /\ AllTransportFailures(req[i])
        /\ req[i].opt = 2
        /\ Sends(req[i]) = 2

(***************************************************************************)
(* C2.  The finally callback is invoked exactly once per call, and only    *)
(* after the final outcome: right after the success callback of the        *)
(* accepted attempt (the promise resolved), or right after the error       *)
(* callback that follows the last failed attempt (the promise rejected);   *)
(* never while an attempt is in flight or a retry delay is running.        *)
(***************************************************************************)
C2_FinallyOnceAtEnd ==
    \A i \in Started :
        LET r == req[i]
            t == r.trace
            p == FirstPos(t, {"finally"})
        IN  /\ Count(t, "finally") = IF r.pc = "settled" THEN 1 ELSE 0
            /\ r.pc = "settled" =>
                  /\ p > 1
                  /\ t[p - 1] \in {"success", "error"}
                  /\ t[p - 1] = "success" => r.result = "resolved"
                  /\ t[p - 1] = "error" =>
                        /\ r.result = "rejected"
                        /\ SendsUpTo(r, p) = Max(1, r.retries)
                  /\ \A q \in (p + 1)..Len(t) :
                        t[q] \notin KindEvents \cup {"send", "wait", "success", "error"}

C2_Witness ==
    \E i \in Started :
        /\ req[i].result = "rejected"
        /\ Sends(req[i]) = 2
        /\ Count(req[i].trace, "finally") = 1

(***************************************************************************)
(* C3.  A body that is not an object or has no success field is never      *)
(* handed to the success callback; the attempt counts as a failed one: it  *)
(* is retried while attempts remain, and on the last allowed attempt the   *)
(* error callback fires and the promise rejects.                           *)
(***************************************************************************)
C3_MalformedIsFailure ==
    \A i \in Started :
        LET r == req[i]
            t == r.trace
        IN  \A p \in 1..Len(t) :
                t[p] = "malformed" =>
                    /\ p < Len(t)
                    /\ t[p + 1] \in {"wait", "error"}
                    /\ t[p + 1] = "wait" <=> SendsUpTo(r, p) < r.retries
                    /\ t[p + 1] = "error" => r.result = "rejected"

C3_Witness ==
    \E i \in Started :
        LET k == Kinds(req[i])
        IN  /\ req[i].result = "rejected"
            /\ Len(k) = 2
            /\ k[1] = "malformed"
            /\ k[2] = "malformed"

(***************************************************************************)
(* C4.  A response whose success field is not a boolean is treated as      *)
(* malformed: it is not passed to the success callback and the attempt     *)
(* counts as a failure.                                                    *)
(***************************************************************************)
C4_NonBooleanIsMalformed ==
    \A i \in Started :
        LET t == req[i].trace
        IN  \A p \in 1..Len(t) :
                t[p] = "nonbool" => (p < Len(t) /\ t[p + 1] \in {"wait", "error"})

(***************************************************************************)
(* C5.  An envelope with success: false is not retried: the attempt that   *)
(* receives it is the last transport call, the success callback receives   *)
(* it, the error callback is not invoked, and the promise resolves with    *)
(* the envelope, however many retries remain.                              *)
(***************************************************************************)
C5_SemanticFailureNotRetried ==
    \A i \in Started :
        LET r == req[i]
            t == r.trace
        IN  \A p \in 1..Len(t) :
                t[p] = "false" =>
                    /\ p < Len(t)
                    /\ t[p + 1] = "success"
                    /\ \A q \in (p + 1)..Len(t) : t[q] \notin {"send", "error"}
                    /\ r.result = "resolved"
                    /\ r.value.success = "false"

(***************************************************************************)
(* C6.  Retries are exhausted strictly by count: once the request has      *)
(* settled, the number of transport calls is the position of the first     *)
(* well-formed envelope if that lies within the attempt bound, and the     *)
(* attempt bound otherwise, whatever kind each failure was and whatever    *)
(* the delay.  The attempt bound is read as the number of attempts the     *)
(* wrapper allows, max(1, retries).                                        *)
(***************************************************************************)
C6_RetriesByCount ==
    \A i \in Started :
        LET r == req[i]
            bound == Max(1, r.retries)
            w == FirstPos(Kinds(r), {"true", "false", "nonbool"})
        IN  r.pc = "settled" =>
                Sends(r) = IF w <= bound THEN w ELSE bound

(***************************************************************************)
(* The click and submit handlers.                                          *)
(***************************************************************************)
Triggered == {i \in Started : req[i].caller \in {"click", "submit"}}

Fallback(caller) ==
    IF caller = "click" THEN "Failed to load content" ELSE "Submission failed"

ErrorToast(text) == [text |-> text, cls |-> "bg-danger", inContainer |-> TRUE]

(***************************************************************************)
(* C7.  For one triggered action the loading marker is set (and, for a     *)
(* form, the submit button disabled) before the first transport call;      *)
(* the marker is removed (and the button re-enabled) exactly once, after   *)
(* every transport call, callback and retry of the action, when the        *)
(* request has resolved or finally failed.  Until then the marker stays    *)
(* set and the button disabled.                                            *)
(***************************************************************************)
C7_LoadingBracketsRequest ==
    \A i \in Triggered :
        LET r == req[i]
            t == r.trace
            form == r.caller = "submit"
            done == IF r.pc = "settled" THEN 1 ELSE 0
            busy == KindEvents \cup {"send", "wait", "success", "error", "show", "disable"}
        IN  /\ t[1] = "show"
            /\ Count(t, "show") = 1
            /\ FirstPos(t, {"show"}) < FirstPos(t, {"send"})
            /\ form => /\ Count(t, "disable") = 1
                       /\ FirstPos(t, {"disable"}) < FirstPos(t, {"send"})
            /\ Count(t, "hide") = done
            /\ Count(t, "enable") = IF form THEN done ELSE 0
            /\ \A q \in 1..Len(t) :
                  q > FirstPos(t, {"hide", "enable"}) => t[q] \notin busy
            /\ r.pc # "settled" => (loading /\ (form => disabled))
            /\ r.pc = "settled" => (~loading /\ (form => ~disabled))

C7_Witness ==
    \E i \in Triggered :
        /\ req[i].caller = "submit"
        /\ req[i].pc = "settled"
        /\ Sends(req[i]) = 3

(***************************************************************************)
(* C8.  When every attempt of a triggered action fails, the generic error  *)
(* toast ('Failed to load content' for GET, 'Submission failed' for POST)  *)
(* is the only toast of the action and is shown once, in the container;    *)
(* no toast is shown while attempts remain.                                *)
(***************************************************************************)
C8_FallbackToastOnce ==
    \A i \in Triggered :
        LET r == req[i]
        IN  /\ r.result = "rejected" => r.shown = <<ErrorToast(Fallback(r.caller))>>
            /\ r.pc # "settled" => r.shown = <<>>

C8_Witness ==
    \E i \in Triggered :
        /\ req[i].caller = "click"
        /\ req[i].result = "rejected"
        /\ AllTransportFailures(req[i])
        /\ Sends(req[i]) = 3

(***************************************************************************)
(* C9.  Original statement: toast creates the container when there is      *)
(* none and reuses it afterwards, so after any number of toast calls the   *)
(* container count is 1 and every toast is inside it.                      *)
(***************************************************************************)
C9_ToastCreatesContainer ==
    (attached + lost > 0) => (containers = 1 /\ lost = 0)

\* C9, amended: toast never creates a container.  It appends the toast to the
\* container when one exists and to nothing when none exists; it is the
\* page-ready handler that creates the container when the page has none, so
\* once the page is ready the container count is 1 and stays 1.
C9_ReadyCreatesContainer ==
    /\ [](ready => containers = 1)
    /\ [][ (attached' + lost' # attached + lost) =>
             /\ containers' = containers
             /\ containers > 0 => (attached' = attached + 1 /\ lost' = lost)
             /\ containers = 0 => (attached' = attached /\ lost' = lost + 1) ]_vars

C9_Witness == ready /\ containers = 1 /\ lost = 1 /\ attached = 1

(***************************************************************************)
(* C10.  Original statement: a POST whose response is an envelope with     *)
(* success: false shows an error toast carrying the envelope's message,    *)
(* or 'Submission failed' when the message is absent; the submit button    *)
(* ends enabled, the loading marker removed, the target region unchanged.  *)
(***************************************************************************)
C10_SemanticFailureToast ==
    \A i \in Triggered :
        LET r == req[i]
            text == IF r.value.message = "absent" THEN "Submission failed"
                    ELSE r.value.message
        IN  (r.caller = "submit" /\ r.result = "resolved" /\ r.value.success = "false")
                => /\ r.shown = <<ErrorToast(text)>>
                   /\ ~disabled
                   /\ ~loading
                   /\ content = r.before

\* C10, amended: the toast carries the envelope's message, or 'Submission
\* failed' when the message is absent or the empty string.
C10_SemanticFailureToastNonEmpty ==
    \A i \in Triggered :
        LET r == req[i]
            text == IF r.value.message \in {"absent", ""} THEN "Submission failed"
                    ELSE r.value.message
        IN  (r.caller = "submit" /\ r.result = "resolved" /\ r.value.success = "false")
                => /\ r.shown = <<ErrorToast(text)>>
                   /\ ~disabled
                   /\ ~loading
                   /\ content = r.before

C10_Witness ==
    \E i \in Triggered :
        /\ req[i].caller = "submit"
        /\ req[i].result = "resolved"
        /\ req[i].value.success = "false"
        /\ req[i].value.message = "Invalid"
        /\ req[i].value.html = "<p>new</p>"
        /\ content = "<p>ok</p>"

(***************************************************************************)
(* C11.  Original statement: a GET whose response is an envelope with      *)
(* success: true makes the target region's content exactly the envelope's  *)
(* data, or empty when data is absent; the loading marker is removed, no   *)
(* error toast is shown, and a success toast is shown if and only if the   *)
(* envelope's message is present.                                          *)
(***************************************************************************)
SuccessToast(text) == [text |-> text, cls |-> "bg-success", inContainer |-> TRUE]

C11_GetSuccessUpdatesTarget ==
    \A i \in Triggered :
        LET r == req[i]
        IN  (r.caller = "click" /\ r.result = "resolved" /\ r.value.success = "true")
                => /\ content = IF r.value.data = "absent" THEN "" ELSE r.value.data
                   /\ ~loading
                   /\ r.shown = IF r.value.message # "absent"
                                THEN <<SuccessToast(r.value.message)>> ELSE <<>>

\* C11, amended: the success toast is shown if and only if the envelope's
\* message is present and not the empty string; the rest as stated.
C11_GetSuccessUpdatesTargetNonEmpty ==
    \A i \in Triggered :
        LET r == req[i]
        IN  (r.caller = "click" /\ r.result = "resolved" /\ r.value.success = "true")
                => /\ content = IF r.value.data = "absent" THEN "" ELSE r.value.data
                   /\ ~loading
                   /\ r.shown = IF r.value.message \notin {"absent", ""}
                                THEN <<SuccessToast(r.value.message)>> ELSE <<>>

C11_Witness ==
    \E i \in Triggered :
        /\ req[i].caller = "click"
        /\ req[i].result = "resolved"
        /\ req[i].value.success = "true"
        /\ req[i].value.data = "absent"
        /\ req[i].value.message = "Invalid"
        /\ req[i].before = "<p>ok</p>"
        /\ content = ""

(***************************************************************************)
(* C12.  The CSRF token is read from the cookie once, when the AjaxHandler *)
(* is constructed: every attempt of every request carries that same token  *)
(* in the anti-forgery header, even if the cookie changes between          *)
(* construction and the request or between attempts.  If the cookie is     *)
(* absent at construction the token is the empty string, and requests are  *)
(* still sent.                                                             *)
(***************************************************************************)
HasCsrfCookie(jar) == \E p \in 1..Len(jar) : jar[p].name = "csrftoken"

Submitted == {i \in ReqIds : req[i].caller = "submit"}

LastField(fs, n) == CHOOSE p \in 1..Len(fs) :
                        fs[p].name = n /\ \A q \in (p + 1)..Len(fs) : fs[q].name # n

C13_SerializeLastWins ==
    \A i \in Submitted :
        /\ DOMAIN req[i].data = {formArray[p].name : p \in 1..Len(formArray)}
        /\ \A n \in DOMAIN req[i].data : req[i].data[n] = formArray[LastField(formArray, n)].value

(***************************************************************************)
(* C14.  When the page is ready the toast container exists exactly once    *)
(* in the document: in every state where a click or submit handler, or any *)
(* of their callbacks, runs, the container exists, so the toasts they      *)
(* create are attached to it.                                              *)
(***************************************************************************)
C14_ContainerWhenHandlersRun ==
    (ready \/ Triggered # {})
        => /\ containers = 1
           /\ \A i \in Triggered :
                  \A p \in 1..Len(req[i].shown) : req[i].shown[p].inContainer

\* The document came without a container (an earlier toast was dropped), and
\* a callback of a handler has shown a toast since.
C14_Witness ==
    /\ lost = 1
    /\ containers = 1
    /\ \E i \in Triggered : Len(req[i].shown) = 1 /\ req[i].shown[1].inContainer

(***************************************************************************)
(* C15.  For every call of request whose callbacks do not throw, exactly   *)
(* one of the success callback and the error callback is invoked, exactly  *)
(* once, over the whole call including all retries: success if and only if *)
(* some attempt within the bound received a well-formed envelope (an       *)
(* object with a boolean success field), and then the promise resolves;    *)
(* error if and only if the attempts were exhausted, and then the promise  *)
(* rejects; the error callback is never invoked for a failed attempt that  *)
(* is followed by a retry.                                                 *)
(***************************************************************************)
WellFormedKinds == {"true", "false"}

\* The callbacks of request r as accepted decides which envelopes are well formed.
OneCallback(r, accepted) ==
    LET t == r.trace
        got == \E p \in 1..Len(t) : t[p] \in accepted /\ SendsUpTo(r, p) <= Max(1, r.retries)
    IN  /\ Count(t, "success") + Count(t, "error") <= 1
        /\ r.pc = "settled" => Count(t, "success") + Count(t, "error") = 1
        /\ Count(t, "success") = 1 <=> got
        /\ Count(t, "success") = 1 <=> r.result = "resolved"
        /\ Count(t, "error") = 1 <=> r.result = "rejected"
        /\ Count(t, "error") = 1 <=> (r.pc = "settled" /\ ~got /\ Sends(r) = Max(1, r.retries))
        /\ \A p \in 1..Len(t) :
               t[p] = "error" => \A q \in (p + 1)..Len(t) : t[q] \notin {"wait", "send"}

C15_ExactlyOneCallback ==
    \A i \in Started : ~req[i].throws => OneCallback(req[i], WellFormedKinds)

(***************************************************************************)
(* C16.  Once an attempt of a request has received a well-formed envelope, *)
(* no further transport call is made for that request, whatever the        *)
(* success callback then does, including when it throws.                   *)
(***************************************************************************)
C16_NoCallAfterEnvelope ==
    \A i \in Started :
        LET t == req[i].trace
        IN  \A p \in 1..Len(t) :
                t[p] \in WellFormedKinds => \A q \in (p + 1)..Len(t) : t[q] # "send"

(***************************************************************************)
(* C17.  Every call of request eventually settles (its promise resolves or *)
(* rejects and the finally callback runs), provided each transport call    *)
(* eventually responds or fails and each retry timer eventually fires; it  *)
(* does so after at most max(1, retries) transport calls, with at most one *)
(* transport call of the request in flight at any time, and each retry     *)
(* starts only after the delay that follows the previous failure.          *)
(***************************************************************************)
\* Transport calls of r that have completed.
Answers(r) == Len(Kinds(r))

C17_BoundedCalls ==
    \A i \in Started :
        LET r == req[i]
            t == r.trace
        IN  /\ Sends(r) <= Max(1, r.retries)
            /\ Sends(r) - Answers(r) = IF r.pc = "inflight" THEN 1 ELSE 0
            /\ \A p \in 2..Len(t) : t[p] = "send" => t[p - 1] = "wait"
            /\ \A p \in 1..Len(t) :
                   t[p] = "wait" => \E q \in 1..(p - 1) : t[q] \in KindEvents
            /\ r.pc = "settled" => /\ r.result \in {"resolved", "rejected"}
                                    /\ Count(t, "finally") = 1

C17_EventuallySettles ==
    /\ []C17_BoundedCalls
    /\ \A i \in ReqIds : Unsettled(i) ~> req[i].pc = "settled"

\* A call that used its whole bound: three transport calls, two delays, settled.
C17_Witness ==
    \E i \in Started :
        /\ req[i].pc = "settled"
        /\ req[i].retries = DefaultRetries
        /\ Sends(req[i]) = DefaultRetries
        /\ Count(req[i].trace, "wait") = DefaultRetries - 1

(***************************************************************************)
(* C18.  When two triggered actions that name the same target region       *)
(* overlap in time, the loading marker stays on the target region for as   *)
(* long as any of them is unsettled; it is removed only when the last of   *)
(* them settles.                                                           *)
(***************************************************************************)
C18_LoadingUntilLastSettles ==
    (\E i \in Triggered : Unsettled(i)) => loading

(***************************************************************************)
(* C19.  When two GET triggers naming the same target region are activated *)
(* one after the other and both requests end in semantic success, the      *)
(* target region finally shows the data of the trigger that was activated  *)
(* last, in whatever order the two responses (and their retries) arrive.   *)
(***************************************************************************)
\* The request of the latest activation (closures are taken in order).
LastActivated == CHOOSE i \in Triggered : \A j \in Triggered : j <= i

C19_LastActivatedWins ==
    (/\ Cardinality(Triggered) >= 2
     /\ \A i \in Triggered : /\ req[i].caller = "click"
                             /\ req[i].pc = "settled"
                             /\ req[i].result = "resolved"
                             /\ req[i].value.success = "true")
        => content = req[LastActivated].value.data

====
